---- MODULE Spec2Model ----
(***************************************************************************)
(* Order creation, payment reconciliation and order status transitions of  *)
(* rcan-api (controllers/orderController.js, paymentController.js,         *)
(* cartController.js) over the Product, Cart and Order collections.        *)
(*                                                                         *)
(* Spec serves the handlers one request at a time.  SpecCart races cart    *)
(* building and checkout: createOrder is split at its awaits into a Begin  *)
(* step (startTransaction and the reads, which fix the transaction's       *)
(* snapshot) and a Finish step (the writes and the commit, or the abort).  *)
(* A write of a transaction to a document that another operation           *)
(* committed after the snapshot fails with a WriteConflict, which the      *)
(* handlers' catch blocks turn into an abort.                              *)
(* SpecBoot starts the process under every environment of gateway keys     *)
(* (config/razorpayConfig.js) and serves checkout and webhook deliveries.  *)
(* SpecAdmin files every status update with its whole body, SpecPrice      *)
(* checks out carts filled before a catalog edit, SpecRace races status    *)
(* updates with payment notifications of one order, and SpecLive adds the  *)
(* gateway, which redelivers a notification until it is answered 200.      *)
(*                                                                         *)
(* Money is kept in thousandths of a rupee before toFixed(2) and in        *)
(* hundredths (paise) once stored.                                         *)
(***************************************************************************)
EXTENDS Integers, Sequences, FiniteSets, TLC

\* ---------------------------------------------------------------- bounds
NumUsers == 2
NumProducts == 2
InitStock == 2
MaxStock == 3
MaxOrders == 1
MaxRaceOrders == 2
MaxGateway == 2
NumSlots == 2

Users == 1..NumUsers
Products == 1..NumProducts
Slots == 1..NumSlots
Quantities == 1..InitStock

\* Catalog price of product p, in thousandths; product 1 is a free sample.
PriceOf(p) == 10000 * (p - 1)

\* Values Date.now() can return, and the created_at of the gateway's payment n.
NowVals == {9}
EventTime(n) == n
\* A product's name, with its first image, when carts were filled, and its
\* price and name after a catalog edit.
NameOf(p) == <<"name", p>>
NewNameOf(p) == <<"renamed", p>>
NewPriceOf(p) == PriceOf(p) + 5000

VARIABLES
    products,   \* Product collection: p -> [price, name, stockQuantity, isActive, exists]
    carts,      \* Cart collection, one per user: u -> [exists, items]
    orders,     \* Order collection, in insertion order
    gateway,    \* number of orders opened at the payment gateway
    reqs,       \* request slots: slot -> the handler's locals, or its response
    paidByHook, \* history: per order, times the webhook path marked it paid
    restored,   \* history: per order, times its inventory was restored
    server,     \* the process: which secrets its environment holds, and its state
    outbox      \* the notification the gateway redelivers until it is answered 200

vars == <<products, carts, orders, gateway, reqs, paidByHook, restored, server, outbox>>

\* ---------------------------------------------------------------- values
NoCart == [exists |-> FALSE, items |-> <<>>]
NoPaymentResult == [id |-> 0, status |-> "", update_time |-> 0]
NoOrder == [user |-> 0]

\* A process whose environment holds RAZORPAY_KEY_ID, RAZORPAY_KEY_SECRET and
\* RAZORPAY_WEBHOOK_SECRET and which listens for requests.
Running == [keyId |-> TRUE, keySecret |-> TRUE, webhookSecret |-> TRUE, state |-> "up"]

NoHook == [razorpayOrderId |-> 0]
NoInput == [orderStatus |-> "none"]
\* A slot is idle, runs a handler (op names it, pc its position) or holds the
\* response the handler sent (pc = "replied", code the HTTP status, body
\* what its JSON says).
Idle == [op |-> "idle", pc |-> "", user |-> 0, product |-> 0, quantity |-> 0,
         cart |-> NoCart, snap |-> <<>>, order |-> 0, doc |-> NoOrder, dirty |-> {},
         asked |-> "", hook |-> NoHook, input |-> NoInput,
         code |-> 0, body |-> ""]
Replied(op, code, body) ==
    [Idle EXCEPT !.op = op, !.pc = "replied", !.code = code, !.body = body]
\* The response to request r: it stays filed with whose request it was, the
\* order it named as the handler loaded it, the orderStatus it asked for, the
\* webhook delivery it was and, where the request was filed whole, its body.
RepliedTo(r, code, body) ==
    [Replied(r.op, code, body) EXCEPT
        !.user = r.user, !.order = r.order, !.doc = r.doc, !.asked = r.asked,
        !.hook = r.hook, !.input = r.input]

Min(a, b) == IF a < b THEN a ELSE b

RECURSIVE SumSeq(_)
SumSeq(s) == IF s = <<>> THEN 0 ELSE Head(s) + SumSeq(Tail(s))

\* The least member of a set of positions, 0 if there is none.
FirstOf(S) == IF S = {} THEN 0 ELSE CHOOSE i \in S : \A j \in S : i <= j

\* cart.items.findIndex(item => item.product == productId), counted from 1.
FindIndex(items, product) ==
    FirstOf({i \in 1..Len(items) : items[i].product = product})

\* Total quantity of product p over the lines of items.
QtyOf(items, p) ==
    SumSeq([i \in 1..Len(items) |-> IF items[i].product = p THEN items[i].quantity ELSE 0])

\* Number.prototype.toFixed(2) of an amount in thousandths, as hundredths:
\* nearest hundredth, a tie goes to the larger magnitude.
ToFixed2(m) == IF m >= 0 THEN (m + 5) \div 10 ELSE 0 - ((5 - m) \div 10)

\* Math.round(x * 100) of an amount in thousandths: a tie goes up.
MathRound100(m) == (m + 5) \div 10

ToLowerCase(s) ==
    CASE s = "COD" -> "cod"
      [] s = "Razorpay" -> "razorpay"
      [] s = "Online" -> "online"
      [] s = "Cash" -> "cash"
      [] s = "Captured" -> "captured"
      [] s = "Paid" -> "paid"
      [] s = "PAID" -> "paid"
      [] OTHER -> s

\* ------------------------------------------------- transactions and marks
\* A mark names something an in-flight request depends on: a document it may
\* write (<<"product", p>>, <<"cart", u>>, <<"order", i>>), its cart's version
\* key (<<"cartv", u>>) or its cart's existence (<<"cartgone", u>>).
\* A database that detects no conflict: no request depends on anything.
WatchNothing(r) == {}

\* What request r depends on: a later commit that touches one of these makes
\* r's own write fail with a WriteConflict or a VersionError.
Watch(r) ==
    CASE r.pc = "replied" -> {}
      [] r.op = "createOrder" ->
            {<<"cart", r.user>>}
            \cup {<<"product", r.cart.items[i].product>> : i \in 1..Len(r.cart.items)}
      [] r.op = "addItem" -> {<<"cartv", r.user>>, <<"cartgone", r.user>>}
      [] r.op = "updateOrderStatus" ->
            {<<"order", r.order>>}
            \cup {<<"product", r.doc.items[i].product>> : i \in 1..Len(r.doc.items)}
      [] r.op = "webhook" -> {<<"order", r.order>>}
      [] OTHER -> {}

\* Commits that leave the requests in flight unmarked.
TouchNothing(s, marks) == reqs

\* The slots after the committed writes of slot s touched `marks`.
Touch(s, marks) ==
    [t \in Slots |->
        IF t = s THEN reqs[t]
        ELSE [reqs[t] EXCEPT !.dirty = @ \cup (marks \cap Watch(reqs[t]))]]

\* The slots after slot s sent `reply` and its committed writes touched `marks`.
Settle(s, reply, marks) == [Touch(s, marks) EXCEPT ![s] = reply]

\* A rollback that leaves the staged writes in place.
KeepStagedWrites(before, staged) == staged

\* session.abortTransaction(): the collections as they were before the writes.
AbortTransaction(before, staged) == before

\* The response is read and the slot is free for the next request.
Close(s) ==
    /\ reqs[s].pc = "replied"
    /\ reqs' = [reqs EXCEPT ![s] = Idle]
    /\ UNCHANGED <<products, carts, orders, gateway, paidByHook, restored, server, outbox>>

\* ---------------------------------------------------------------- Init
Init ==
    /\ products = [p \in Products |->
          [price |-> PriceOf(p), name |-> NameOf(p), stockQuantity |-> InitStock,
           isActive |-> TRUE, exists |-> TRUE]]
    /\ carts = [u \in Users |-> NoCart]
    /\ orders = <<>>
    /\ gateway = 0
    /\ reqs = [s \in Slots |-> Idle]
    /\ paidByHook = <<>>
    /\ restored = <<>>
    /\ server = Running
    /\ outbox = NoHook

\* ------------------------------------------------------- addItemToCart
\* cartController.js addItemToCart runs without a transaction: every await is
\* a separate read or write of the live collections.

\* Lines 81-98: Product.findById, the availability checks, Cart.findOne.
AddItemBegin(s, u, p, q) ==
    /\ reqs[s].op = "idle"
    /\ server.state = "up"
    /\ UNCHANGED <<products, carts, orders, gateway, paidByHook, restored, server, outbox>>
    /\ reqs' = [reqs EXCEPT ![s] =
          IF ~products[p].exists \/ ~products[p].isActive
          THEN Replied("addItem", 404, "not available")
          ELSE IF products[p].stockQuantity < q
          THEN Replied("addItem", 400, "not enough stock")
          ELSE [Idle EXCEPT !.op = "addItem",
                            !.pc = IF carts[u].exists THEN "save" ELSE "create",
                            !.user = u, !.product = p, !.quantity = q,
                            !.cart = carts[u], !.snap = products]]

\* Lines 100-102: Cart.create; the unique index on user rejects a second cart.
AddItemCreate(s) ==
    LET r == reqs[s]
        created == [exists |-> TRUE, items |-> <<>>]
    IN
    /\ r.op = "addItem" /\ r.pc = "create"
    /\ UNCHANGED <<products, orders, gateway, paidByHook, restored, server, outbox>>
    /\ IF carts[r.user].exists
       THEN /\ reqs' = Settle(s, Replied("addItem", 500, "server error"), {})
            /\ UNCHANGED carts
       ELSE /\ carts' = [carts EXCEPT ![r.user] = created]
            /\ reqs' = Settle(s, [r EXCEPT !.pc = "save", !.cart = created],
                              {<<"cart", r.user>>})

\* Lines 125-131: the line pushed for a product that is not in the loaded cart.
NewCartLine(r) ==
    [product |-> r.product, quantity |-> r.quantity, price |-> r.snap[r.product].price,
     name |-> r.snap[r.product].name]

\* Lines 105-135: merge into the loaded cart, then cart.save().  Mongoose sends
\* a $push for a new line (no version check, __v incremented) and a positional
\* $set guarded by the loaded __v for a changed quantity.
AddItemSave(s) ==
    LET r == reqs[s]
        u == r.user
        existingItemIndex == FindIndex(r.cart.items, r.product)
        newQuantity == r.cart.items[existingItemIndex].quantity + r.quantity
    IN
    /\ r.op = "addItem" /\ r.pc = "save"
    /\ UNCHANGED <<products, orders, gateway, paidByHook, restored, server, outbox>>
    /\ IF existingItemIndex > 0
       THEN IF r.snap[r.product].stockQuantity < newQuantity
            THEN /\ reqs' = Settle(s, Replied("addItem", 400, "not enough stock"), {})
                 /\ UNCHANGED carts
            ELSE IF r.dirty # {}
            THEN /\ reqs' = Settle(s, Replied("addItem", 500, "server error"), {})
                 /\ UNCHANGED carts
            ELSE /\ carts' = [carts EXCEPT
                        ![u].items[existingItemIndex].quantity = newQuantity]
                 /\ reqs' = Settle(s, Replied("addItem", 200, "added"), {<<"cart", u>>})
       ELSE IF <<"cartgone", u>> \in r.dirty
            THEN /\ reqs' = Settle(s, Replied("addItem", 500, "server error"), {})
                 /\ UNCHANGED carts
            ELSE /\ carts' = [carts EXCEPT ![u].items = Append(@, NewCartLine(r))]
                 /\ reqs' = Settle(s, Replied("addItem", 200, "added"),
                                   {<<"cart", u>>, <<"cartv", u>>})

\* --------------------------------------------------------- createOrder
PaymentMethods == {"COD", "Razorpay", "Cash"}
\* taxPrice and shippingPrice of the body after parseFloat(..) || 0, thousandths.
TaxInputs == {0, 4}
ShippingInputs == {0, 4}
\* Where a database call of the transaction fails for reasons of its own.
Faults == {"none", "create", "stock", "cart"}

\* Lines 24-27: body without shippingAddress or paymentMethod.
CreateOrderBadRequest(s) ==
    /\ reqs[s].op = "idle"
    /\ server.state = "up"
    /\ reqs' = [reqs EXCEPT ![s] = Replied("createOrder", 400, "missing fields")]
    /\ UNCHANGED <<products, carts, orders, gateway, paidByHook, restored, server, outbox>>

HasItems(cart) == cart.exists /\ Len(cart.items) > 0

\* Lines 29-33: no cart, or a cart without lines.
CreateOrderEmptyCart(s, u) ==
    /\ reqs[s].op = "idle"
    /\ server.state = "up"
    /\ ~HasItems(carts[u])
    /\ reqs' = [reqs EXCEPT ![s] = Replied("createOrder", 400, "cart empty")]
    /\ UNCHANGED <<products, carts, orders, gateway, paidByHook, restored, server, outbox>>

\* The handler's locals once the cart and the snapshot are read.
CreateOrderRequest(u) ==
    [Idle EXCEPT !.op = "createOrder", !.pc = "txn", !.user = u,
                 !.cart = carts[u], !.snap = products]

InFlight(op) == Cardinality({t \in Slots : reqs[t].op = op /\ reqs[t].pc # "replied"})

\* Lines 11-33: startTransaction, Cart.findOne; the first read fixes the
\* snapshot that the Product.findById calls of the loop read from.
CreateOrderBegin(s, u) ==
    /\ reqs[s].op = "idle"
    /\ server.state = "up"
    /\ HasItems(carts[u])
    /\ Len(orders) + InFlight("createOrder") < MaxRaceOrders
    /\ reqs' = [reqs EXCEPT ![s] = CreateOrderRequest(u)]
    /\ UNCHANGED <<products, carts, orders, gateway, paidByHook, restored, server, outbox>>

Passed == [code |-> 0, body |-> ""]

\* Lines 40-54: the per-line checks against the snapshot; Passed when all pass.
RECURSIVE CheckItems(_, _, _)
CheckItems(items, snap, i) ==
    IF i > Len(items) THEN Passed
    ELSE LET product == snap[items[i].product] IN
         IF ~product.exists THEN [code |-> 404, body |-> "product not found"]
         ELSE IF ~product.isActive THEN [code |-> 400, body |-> "not available"]
         ELSE IF product.stockQuantity < items[i].quantity
         THEN [code |-> 400, body |-> "not enough stock"]
         ELSE CheckItems(items, snap, i + 1)

\* Order lines that copy the price and the name of the cart line.
OrderItemsFromCart(items, snap) ==
    [i \in 1..Len(items) |->
        [product |-> items[i].product, name |-> items[i].name,
         price |-> items[i].price, quantity |-> items[i].quantity]]

\* Lines 55-59: order lines carry the catalog price read in the transaction.
OrderItems(items, snap) ==
    [i \in 1..Len(items) |->
        [product |-> items[i].product, name |-> snap[items[i].product].name,
         price |-> snap[items[i].product].price,
         quantity |-> items[i].quantity]]

\* Line 60, summed over the loop.
ItemsPrice(orderItems) ==
    SumSeq([i \in 1..Len(orderItems) |-> orderItems[i].price * orderItems[i].quantity])

\* Line 91.
InitialStatus(paymentMethod) ==
    IF ToLowerCase(paymentMethod) = "cod" THEN "Processing" ELSE "Pending Payment"

\* Line 95.
IsGatewayRouted(paymentMethod) ==
    ToLowerCase(paymentMethod) = "razorpay" \/ ToLowerCase(paymentMethod) = "online"

\* Lines 73-92 and 113: internalOrderData as Order.create stores it.
InternalOrderData(u, orderItems, in, razorpayOrderId) ==
    LET itemsPrice == ItemsPrice(orderItems)
        totalPrice == itemsPrice + in.taxPrice + in.shippingPrice
    IN [user |-> u, items |-> orderItems, shippingAddress |-> in.shippingAddress,
        paymentMethod |-> in.paymentMethod,
        itemsPrice |-> ToFixed2(itemsPrice), taxPrice |-> ToFixed2(in.taxPrice),
        shippingPrice |-> ToFixed2(in.shippingPrice), totalPrice |-> ToFixed2(totalPrice),
        isPaid |-> FALSE, paidAt |-> 0, orderStatus |-> InitialStatus(in.paymentMethod),
        paymentResult |-> NoPaymentResult, razorpayOrderId |-> razorpayOrderId,
        deliveredAt |-> 0]

\* A decrement of one unit per ordered product, whatever the quantity.
DecrementStockByOne(prods, orderItems) ==
    [p \in Products |->
        [prods[p] EXCEPT !.stockQuantity =
            IF QtyOf(orderItems, p) > 0 THEN @ - 1 ELSE @]]

\* Lines 63-69 and 142: every queued $inc of -quantity, applied to stock.
DecrementStock(prods, orderItems) ==
    [p \in Products |->
        [prods[p] EXCEPT !.stockQuantity = @ - QtyOf(orderItems, p)]]

\* Lines 95-113: internalOrderData.razorpayOrderId after the gateway branch.
\* razorpay.orders.create answers with the next gateway order id, or fails.
GatewayOrderId(routed, gatewayOk, next) ==
    IF routed /\ gatewayOk THEN next ELSE 0

\* A gateway branch that goes on although no gateway order was opened.
GatewayFailureIgnored(routed, razorpayOrderId) == FALSE

\* Lines 120-133: the catch around razorpay.orders.create and the check that
\* the id is there.
GatewayFailed(routed, razorpayOrderId) == routed /\ razorpayOrderId = 0

\* Lines 151-156: the message of the 201 response, which tells whether
\* paymentDetails (the gateway payment parameters) is filled.
PlacedMessage(routed) == IF routed THEN "order initiated" ELSE "order placed"

\* Lines 40-177 after the cart is loaded.  Yields the response, the
\* collections left behind and the gateway's order count.
CreateOrderRun(r, in) ==
    LET u == r.user
        items == r.cart.items
        before == [products |-> products, carts |-> carts, orders |-> orders]
        check == CheckItems(items, r.snap, 1)
        orderItems == OrderItems(items, r.snap)
        totalPrice == ItemsPrice(orderItems) + in.taxPrice + in.shippingPrice
        routed == IsGatewayRouted(in.paymentMethod)
        gw == IF routed /\ in.gatewayOk THEN gateway + 1 ELSE gateway
        razorpayOrderId == GatewayOrderId(routed, in.gatewayOk, gateway + 1)
        order == InternalOrderData(u, orderItems, in, razorpayOrderId)
        withOrder == [before EXCEPT !.orders = Append(@, order)]
        withStock == [withOrder EXCEPT !.products = DecrementStock(@, orderItems)]
        withoutCart == [withStock EXCEPT !.carts[u] = NoCart]
        stockConflict == \E i \in 1..Len(items) : <<"product", items[i].product>> \in r.dirty
        cartConflict == <<"cart", u>> \in r.dirty
        Failed(code, body, staged, g) ==
            [code |-> code, body |-> body, db |-> AbortTransaction(before, staged),
             gateway |-> g, committed |-> FALSE]
    IN
    IF check # Passed THEN Failed(check.code, check.body, before, gateway)
    ELSE IF routed /\ MathRound100(totalPrice) <= 0
    THEN Failed(400, "total not positive", before, gateway)
    ELSE IF GatewayFailed(routed, razorpayOrderId)
    THEN Failed(500, "gateway error", before, gateway)
    ELSE IF in.shippingAddress # "full" THEN Failed(400, "invalid order", before, gw)
    ELSE IF in.fault = "create" THEN Failed(500, "server error", before, gw)
    ELSE IF stockConflict \/ in.fault = "stock"
    THEN Failed(500, "server error", withOrder, gw)
    ELSE IF cartConflict \/ in.fault = "cart"
    THEN Failed(500, "server error", withStock, gw)
    ELSE [code |-> 201, body |-> PlacedMessage(routed), db |-> withoutCart, gateway |-> gw,
          committed |-> TRUE]

\* What a committed createOrder touched: the ordered products and the cart.
CreateOrderMarks(r) ==
    Watch(r) \cup {<<"cartv", r.user>>, <<"cartgone", r.user>>}

\* The effect of the handler on the collections, and its response.
CreateOrderEnd(s, r, in) ==
    LET out == CreateOrderRun(r, in) IN
    /\ IsGatewayRouted(in.paymentMethod) => gateway < MaxGateway
    /\ products' = out.db.products
    /\ carts' = out.db.carts
    /\ orders' = out.db.orders
    /\ gateway' = out.gateway
    /\ reqs' = Settle(s, RepliedTo(r, out.code, out.body),
                      IF out.committed THEN CreateOrderMarks(r) ELSE {})
    /\ paidByHook' = IF out.committed THEN Append(paidByHook, 0) ELSE paidByHook
    /\ restored' = IF out.committed THEN Append(restored, 0) ELSE restored
    /\ UNCHANGED <<server, outbox>>

\* The writes and the commit of a request that CreateOrderBegin left in flight.
CreateOrderFinish(s, in) ==
    /\ reqs[s].op = "createOrder" /\ reqs[s].pc = "txn"
    /\ CreateOrderEnd(s, reqs[s], in)

\* The whole handler, served without interleaving.
CreateOrder(s, u, in) ==
    /\ reqs[s].op = "idle"
    /\ server.state = "up"
    /\ HasItems(carts[u])
    /\ Len(orders) < MaxOrders
    /\ CreateOrderEnd(s, CreateOrderRequest(u), in)

\* Request bodies and environment outcomes: every body that goes through, and
\* for each payment method one of each kind of failure.
CreateOrderInputs ==
    [paymentMethod : PaymentMethods, shippingAddress : {"full"},
     taxPrice : TaxInputs, shippingPrice : ShippingInputs,
     gatewayOk : {TRUE}, fault : {"none"}]
    \cup [paymentMethod : PaymentMethods, shippingAddress : {"partial"},
          taxPrice : {0}, shippingPrice : {0}, gatewayOk : {TRUE}, fault : {"none"}]
    \cup [paymentMethod : {"Razorpay"}, shippingAddress : {"full"},
          taxPrice : {0}, shippingPrice : {0}, gatewayOk : {FALSE}, fault : {"none"}]
    \cup [paymentMethod : PaymentMethods, shippingAddress : {"full"},
          taxPrice : {0}, shippingPrice : {0}, gatewayOk : {TRUE},
          fault : Faults \ {"none"}]

\* --------------------------------------------------- updateOrderStatus
\* A schema whose enumeration admits 'Paid'.
StatusEnumWithPaid ==
    {"Pending Payment", "Pending", "Processing", "Shipped", "Delivered", "Cancelled",
     "Failed", "Paid"}

\* OrderModel.js line 88.
StatusEnum ==
    {"Pending Payment", "Pending", "Processing", "Shipped", "Delivered", "Cancelled", "Failed"}
UnpaidInitial == {"Pending Payment", "Pending"}

\* req.body.isPaid: absent or a boolean.
IsPaidInputs == {"undefined", "true", "false"}
\* req.body.isPaid of any JSON type: also the string 'false'.
IsPaidJson == IsPaidInputs \cup {"'false'"}
\* Lines 256-257: isPaid as a JavaScript condition; a non-empty string is truthy.
Truthy(isPaid) == isPaid \in {"true", "'false'"}
\* Line 255: the value the Boolean path stores; the string 'false' casts to false.
CastBoolean(isPaid) == isPaid = "true"

\* req.body.paymentResult: absent (status "none"), or a patch of some fields.
NoPatch == [id |-> 0, status |-> "none", update_time |-> 0]
PatchInputs ==
    {NoPatch, [id |-> 0, status |-> "Captured", update_time |-> 0]}

\* Line 260: { ...order.paymentResult, ...paymentResult }.
MergePaymentResult(old, patch) ==
    [id |-> IF patch.id # 0 THEN patch.id ELSE old.id,
     status |-> patch.status,
     update_time |-> IF patch.update_time # 0 THEN patch.update_time ELSE old.update_time]

\* A comparison of the status as spelled, without toLowerCase().
IsSuccessStatusAsSpelled(status) ==
    status \in {"succeeded", "completed", "captured", "paid"}

\* Line 261.
IsSuccessStatus(status) ==
    ToLowerCase(status) \in {"succeeded", "completed", "captured", "paid"}

\* A restore on every cancelling body, whatever the order's status.
RestoresStockOnAnyCancel(order, orderStatus) == orderStatus = "Cancelled"

\* Lines 238-240: does this call restore the inventory of the order's lines?
RestoresStock(order, orderStatus) ==
    /\ orderStatus = "Cancelled"
    /\ order.orderStatus \in {"Pending Payment", "Pending", "Processing", "Paid"}
    /\ order.orderStatus # "Cancelled"

\* A handler that stamps deliveredAt on every 'Delivered', set or not, a set
\* one with a later time.
ApplyOrderStatusRestamping(order, orderStatus, now) ==
    IF orderStatus = "" THEN order
    ELSE [order EXCEPT
            !.orderStatus = orderStatus,
            !.deliveredAt = IF orderStatus = "Delivered"
                            THEN (IF @ = 0 THEN now ELSE @ + 1) ELSE @,
            !.isPaid = IF orderStatus = "Paid" THEN TRUE ELSE @,
            !.paidAt = IF orderStatus = "Paid" /\ ~order.isPaid THEN now ELSE @]

\* Lines 237-253: the orderStatus field of the body.
ApplyOrderStatus(order, orderStatus, now) ==
    IF orderStatus = "" THEN order
    ELSE [order EXCEPT
            !.orderStatus = orderStatus,
            !.deliveredAt = IF orderStatus = "Delivered" /\ @ = 0 THEN now ELSE @,
            !.isPaid = IF orderStatus = "Paid" THEN TRUE ELSE @,
            !.paidAt = IF orderStatus = "Paid" /\ ~order.isPaid THEN now ELSE @]

\* Lines 254-258: the isPaid field of the body.
ApplyIsPaid(order, isPaid, now) ==
    IF isPaid = "undefined" THEN order
    ELSE [order EXCEPT
            !.isPaid = CastBoolean(isPaid),
            !.paidAt = IF Truthy(isPaid) /\ @ = 0 THEN now
                       ELSE IF ~Truthy(isPaid) THEN 0 ELSE @]

\* Lines 259-268: the paymentResult field of the body.
ApplyPaymentResult(order, patch, now) ==
    IF patch.status = "none" THEN order
    ELSE LET pays == IsSuccessStatus(patch.status) /\ ~order.isPaid IN
         [order EXCEPT
            !.paymentResult = MergePaymentResult(@, patch),
            !.isPaid = IF pays THEN TRUE ELSE @,
            !.paidAt = IF pays
                       THEN (IF patch.update_time # 0 THEN patch.update_time ELSE now)
                       ELSE @,
            !.orderStatus = IF pays /\ @ \in UnpaidInitial THEN "Processing" ELSE @]

\* No correction of a paid order left in an unpaid-initial status.
NoAutoCorrect(order) == order

\* Lines 269-271.
AutoCorrect(order) ==
    IF order.isPaid /\ order.orderStatus \in UnpaidInitial
    THEN [order EXCEPT !.orderStatus = "Processing"]
    ELSE order

\* Lines 237-271: the order document as the handler leaves it before save().
UpdatedOrder(order, in) ==
    AutoCorrect(
        ApplyPaymentResult(
            ApplyIsPaid(ApplyOrderStatus(order, in.orderStatus, in.now), in.isPaid, in.now),
            in.paymentResult, in.now))

\* A restore of one unit per order line, whatever the quantity.
RestoreStockByOne(prods, orderItems) ==
    [p \in Products |->
        [prods[p] EXCEPT !.stockQuantity =
            IF QtyOf(orderItems, p) > 0 THEN @ + 1 ELSE @]]

\* Lines 241-245 and 275: every $inc of +quantity, applied to stock.
RestoreStock(prods, orderItems) ==
    [p \in Products |->
        [prods[p] EXCEPT !.stockQuantity = @ + QtyOf(orderItems, p)]]

\* Lines 224-232: a malformed id (id 0) or an id no order has.
UpdateOrderStatusNotFound(s, id) ==
    /\ reqs[s].op = "idle"
    /\ server.state = "up"
    /\ id = 0 \/ id > Len(orders)
    /\ reqs' = [reqs EXCEPT ![s] =
          IF id = 0 THEN Replied("updateOrderStatus", 400, "invalid id")
          ELSE Replied("updateOrderStatus", 404, "order not found")]
    /\ UNCHANGED <<products, carts, orders, gateway, paidByHook, restored, server, outbox>>

\* The handler's locals once the order is loaded (lines 218-235).
UpdateOrderStatusRequest(id) ==
    [Idle EXCEPT !.op = "updateOrderStatus", !.pc = "txn", !.order = id,
                 !.doc = orders[id]]

\* Lines 234-286 after the order is loaded.
UpdateOrderStatusRun(r, in) ==
    LET id == r.order
        before == [products |-> products, carts |-> carts, orders |-> orders]
        restores == RestoresStock(r.doc, in.orderStatus)
        updated == UpdatedOrder(r.doc, in)
        withStock == IF restores
                     THEN [before EXCEPT !.products = RestoreStock(@, r.doc.items)]
                     ELSE before
        \* save() writes the modified paths only: nothing if none was modified
        withOrder == IF updated = r.doc THEN withStock
                     ELSE [withStock EXCEPT !.orders[id] = updated]
        stockConflict ==
            restores /\ \E i \in 1..Len(r.doc.items) :
                            <<"product", r.doc.items[i].product>> \in r.dirty
        saveConflict == updated # r.doc /\ <<"order", id>> \in r.dirty
        Failed(staged) ==
            [code |-> 500, body |-> "server error",
             db |-> AbortTransaction(before, staged), committed |-> FALSE,
             restores |-> FALSE]
    IN
    IF stockConflict \/ in.fault = "stock" THEN Failed(before)
    ELSE IF updated.orderStatus \notin StatusEnum THEN Failed(withStock)
    ELSE IF saveConflict \/ in.fault = "save" THEN Failed(withStock)
    ELSE [code |-> 200, body |-> "order updated", db |-> withOrder,
          committed |-> TRUE, restores |-> restores]

\* What a committed updateOrderStatus touched.
UpdateOrderStatusMarks(r, out) ==
    (IF out.db.orders[r.order] # orders[r.order] THEN {<<"order", r.order>>} ELSE {})
    \cup (IF out.restores
          THEN {<<"product", r.doc.items[i].product>> : i \in 1..Len(r.doc.items)}
          ELSE {})

\* The effect of the handler on the collections, and its response.
UpdateOrderStatusEnd(s, r, in) ==
    LET out == UpdateOrderStatusRun(r, in) IN
    /\ \A p \in Products : out.db.products[p].stockQuantity <= MaxStock
    /\ products' = out.db.products
    /\ carts' = out.db.carts
    /\ orders' = out.db.orders
    /\ reqs' = Settle(s, RepliedTo([r EXCEPT !.asked = in.orderStatus], out.code, out.body),
                      IF out.committed THEN UpdateOrderStatusMarks(r, out) ELSE {})
    /\ restored' = IF out.restores
                   THEN [restored EXCEPT ![r.order] = Min(@ + 1, 2)]
                   ELSE restored
    /\ UNCHANGED <<gateway, paidByHook, server, outbox>>

\* The whole handler, served without interleaving.
UpdateOrderStatus(s, id, in) ==
    /\ reqs[s].op = "idle"
    /\ server.state = "up"
    /\ id \in 1..Len(orders)
    /\ UpdateOrderStatusEnd(s, UpdateOrderStatusRequest(id), in)

\* Request bodies and environment outcomes: every body, and a database fault
\* at either write of a cancelling and of a non-cancelling body.
UpdateInputs ==
    [orderStatus : {""} \cup StatusEnum \cup {"Paid"}, isPaid : IsPaidInputs,
     paymentResult : PatchInputs, now : NowVals, fault : {"none"}]
    \cup [orderStatus : {"Cancelled", "Shipped"}, isPaid : {"undefined"},
          paymentResult : {NoPatch}, now : NowVals, fault : {"stock", "save"}]

\* Lines 218-235: startTransaction and Order.findById; the read fixes the
\* transaction's snapshot of the order.
UpdateOrderStatusBegin(s, id) ==
    /\ reqs[s].op = "idle"
    /\ server.state = "up"
    /\ id \in 1..Len(orders)
    /\ reqs' = [reqs EXCEPT ![s] = UpdateOrderStatusRequest(id)]
    /\ UNCHANGED <<products, carts, orders, gateway, paidByHook, restored, server, outbox>>

\* The writes and the commit of a request that UpdateOrderStatusBegin left in
\* flight.
UpdateOrderStatusFinish(s, in) ==
    /\ reqs[s].op = "updateOrderStatus" /\ reqs[s].pc = "txn"
    /\ UpdateOrderStatusEnd(s, reqs[s], in)

\* The same handler, its request filed with the whole body.
UpdateOrderStatusLogged(s, id, in) ==
    /\ reqs[s].op = "idle"
    /\ server.state = "up"
    /\ id \in 1..Len(orders)
    /\ UpdateOrderStatusEnd(s, [UpdateOrderStatusRequest(id) EXCEPT !.input = in], in)

\* Patches of an administrator: none, a success status in two spellings, with
\* and without update_time, and a status that is no success.
AdminPatches ==
    {NoPatch, [id |-> 0, status |-> "Captured", update_time |-> 0],
     [id |-> 0, status |-> "PAID", update_time |-> 7],
     [id |-> 3, status |-> "failed", update_time |-> 0]}

\* Bodies of an administrator, isPaid of any JSON type.
AdminInputs ==
    [orderStatus : {"", "Pending", "Shipped", "Delivered", "Cancelled", "Paid"},
     isPaid : IsPaidJson, paymentResult : AdminPatches, now : NowVals,
     fault : {"none"}]

\* ------------------------------------------------- verifyRazorpayWebhook
\* paymentController.js, the handler in force (lines 143-248).
PaymentIds == {1, 2}
SuccessEvents == {"order.paid", "payment.captured"}

\* The webhook secret set at the gateway, with which it signs its deliveries.
GatewaySecret == "whsec"

\* Line 145: process.env.RAZORPAY_WEBHOOK_SECRET || process.env.RAZORPAY_KEY_SECRET;
\* "" if the environment holds neither.
WebhookSecret ==
    IF server.webhookSecret THEN GatewaySecret
    ELSE IF server.keySecret THEN "keysec" ELSE ""

\* Lines 147-150: no secret to verify with; the request is answered 500.
WebhookMisconfigured(s, razorpayOrderId, in) ==
    /\ reqs[s].op = "idle"
    /\ server.state = "up"
    /\ WebhookSecret = ""
    /\ reqs' = [reqs EXCEPT ![s] =
          [Replied("webhook", 500, "secret misconfiguration")
              EXCEPT !.hook = [razorpayOrderId |-> razorpayOrderId, event |-> in.event,
                               paymentId |-> in.paymentId, hasOrder |-> in.hasOrder,
                               json |-> in.json, key |-> in.key]]]
    /\ UNCHANGED <<products, carts, orders, gateway, paidByHook, restored, server, outbox>>

\* Lines 155-157: createHmac('sha256', secret).update(body).digest('hex'),
\* taken as collision free: equal digests have equal secrets and equal bodies.
Hmac(secret, body) == <<secret, body>>

\* A delivery: the gateway order id its body names and the rest of the request.
Hook(razorpayOrderId, in) ==
    [razorpayOrderId |-> razorpayOrderId, event |-> in.event,
     paymentId |-> in.paymentId, hasOrder |-> in.hasOrder, json |-> in.json,
     key |-> in.key]

\* Line 153: req.body.toString(), the raw bytes the sender signed.
RawBody(hook) ==
    <<hook.json, hook.event, hook.hasOrder, hook.razorpayOrderId, hook.paymentId>>

\* Line 159: the x-razorpay-signature header, computed by the sender with the
\* key it holds.
SignatureHeader(hook) == Hmac(hook.key, RawBody(hook))

\* A handler that takes every signature for good.
SignatureNotChecked(hook) == TRUE

\* Line 163: digest === razorpaySignature.
SignatureMatches(hook) == Hmac(WebhookSecret, RawBody(hook)) = SignatureHeader(hook)

\* Lines 163-177 passed: the signature matches and the body parses.
Verified(hook) == SignatureMatches(hook) /\ hook.json

\* Lines 184-189 and 238-240: the branches that read payload.order.entity.
ReadsOrderEntity(hook) == hook.event \in SuccessEvents \cup {"payment.failed"}

\* Lines 163-166 and 172-177: signature mismatch or unparsable body.
WebhookRejected(s, razorpayOrderId, in) ==
    LET hook == Hook(razorpayOrderId, in) IN
    /\ reqs[s].op = "idle"
    /\ server.state = "up"
    /\ WebhookSecret # ""
    /\ ~Verified(hook)
    /\ reqs' = [reqs EXCEPT ![s] =
          [Replied("webhook", 400,
                   IF SignatureMatches(hook) THEN "invalid json" ELSE "signature mismatch")
              EXCEPT !.hook = hook]]
    /\ UNCHANGED <<products, carts, orders, gateway, paidByHook, restored, server, outbox>>

\* Lines 185-186 and 238-239: payload.order is undefined and reading its
\* entity throws outside every try block.  The async handler's promise is
\* rejected: the global error handler answers 500, or nothing answers (code 0),
\* as the Express version has it.
WebhookThrows(s, razorpayOrderId, in) ==
    LET hook == Hook(razorpayOrderId, in) IN
    /\ reqs[s].op = "idle"
    /\ server.state = "up"
    /\ WebhookSecret # ""
    /\ Verified(hook)
    /\ ReadsOrderEntity(hook) /\ ~hook.hasOrder
    /\ \E code \in {0, 500} :
          reqs' = [reqs EXCEPT ![s] =
              [Replied("webhook", code, IF code = 0 THEN "no response" ELSE "unhandled error")
                  EXCEPT !.hook = hook]]
    /\ UNCHANGED <<products, carts, orders, gateway, paidByHook, restored, server, outbox>>

\* Lines 237-247: payment.failed and unrecognized events.
WebhookIgnored(s, razorpayOrderId, in) ==
    LET hook == Hook(razorpayOrderId, in) IN
    /\ reqs[s].op = "idle"
    /\ server.state = "up"
    /\ WebhookSecret # ""
    /\ Verified(hook)
    /\ hook.event \notin SuccessEvents
    /\ ReadsOrderEntity(hook) => hook.hasOrder
    /\ reqs' = [reqs EXCEPT ![s] =
          [Replied("webhook", 200, "webhook received") EXCEPT !.hook = hook]]
    /\ UNCHANGED <<products, carts, orders, gateway, paidByHook, restored, server, outbox>>

\* A lookup that takes the first order whatever gateway order id it carries.
FindAnyOrder(razorpayOrderId) == FirstOf(1..Len(orders))

\* Line 198: Order.findOne({ razorpayOrderId }); 0 if no order carries it.
FindByRazorpayOrderId(razorpayOrderId) ==
    FirstOf({id \in 1..Len(orders) : orders[id].razorpayOrderId = razorpayOrderId})

\* Lines 184-198 reached: a verified payment-success event that names an order.
Reconciles(hook) ==
    Verified(hook) /\ hook.event \in SuccessEvents /\ hook.hasOrder

\* The handler's locals once the order is loaded (lines 195-198).
WebhookRequest(id, hook) ==
    [Idle EXCEPT !.op = "webhook", !.pc = "txn", !.order = id,
                 !.doc = IF id = 0 THEN NoOrder ELSE orders[id], !.hook = hook]

\* Lines 198-210: a payment-success event whose gateway order has no local
\* order, or one that is paid already.
WebhookNoOp(s, razorpayOrderId, in) ==
    LET hook == Hook(razorpayOrderId, in)
        id == FindByRazorpayOrderId(razorpayOrderId)
    IN
    /\ reqs[s].op = "idle"
    /\ server.state = "up"
    /\ WebhookSecret # ""
    /\ Reconciles(hook)
    /\ id # 0 => orders[id].isPaid
    /\ reqs' = [reqs EXCEPT ![s] =
          RepliedTo(WebhookRequest(id, hook), 200,
                    IF id = 0 THEN "order not found" ELSE "already paid")]
    /\ UNCHANGED <<products, carts, orders, gateway, paidByHook, restored, server, outbox>>

\* A reconciliation that also clears the gateway order id of the paid order.
MarkPaidClearingGatewayOrder(order, razorpayPaymentId) ==
    [order EXCEPT
        !.isPaid = TRUE,
        !.paidAt = EventTime(razorpayPaymentId),
        !.orderStatus = "Processing",
        !.razorpayOrderId = 0,
        !.paymentResult = [id |-> razorpayPaymentId, status |-> "captured",
                           update_time |-> EventTime(razorpayPaymentId)]]

\* Lines 212-220: the order as the webhook marks it paid.
MarkPaid(order, razorpayPaymentId) ==
    [order EXCEPT
        !.isPaid = TRUE,
        !.paidAt = EventTime(razorpayPaymentId),
        !.orderStatus = "Processing",
        !.paymentResult = [id |-> razorpayPaymentId, status |-> "captured",
                           update_time |-> EventTime(razorpayPaymentId)]]

\* A handler that swallows the error of a failed update and acknowledges.
WebhookRunSwallowingErrors(r, in) ==
    LET before == [products |-> products, carts |-> carts, orders |-> orders]
        withOrder == [before EXCEPT !.orders[r.order] = MarkPaid(r.doc, in.paymentId)]
    IN
    IF <<"order", r.order>> \in r.dirty \/ in.fault = "save"
    THEN [code |-> 200, body |-> "webhook received",
          db |-> AbortTransaction(before, withOrder), committed |-> FALSE]
    ELSE [code |-> 200, body |-> "webhook received", db |-> withOrder,
          committed |-> TRUE]

\* Lines 212-247.
WebhookRun(r, in) ==
    LET before == [products |-> products, carts |-> carts, orders |-> orders]
        withOrder == [before EXCEPT !.orders[r.order] = MarkPaid(r.doc, in.paymentId)]
    IN
    IF <<"order", r.order>> \in r.dirty \/ in.fault = "save"
    THEN [code |-> 500, body |-> "server error",
          db |-> AbortTransaction(before, withOrder), committed |-> FALSE]
    ELSE [code |-> 200, body |-> "webhook received", db |-> withOrder,
          committed |-> TRUE]

\* The effect of the handler on the collections, and its response.
WebhookEnd(s, r, in) ==
    LET out == WebhookRun(r, in) IN
    /\ products' = out.db.products
    /\ carts' = out.db.carts
    /\ orders' = out.db.orders
    /\ reqs' = Settle(s, RepliedTo(r, out.code, out.body),
                      IF out.committed THEN {<<"order", r.order>>} ELSE {})
    /\ paidByHook' = IF out.committed
                     THEN [paidByHook EXCEPT ![r.order] = Min(@ + 1, 2)]
                     ELSE paidByHook
    /\ UNCHANGED <<gateway, restored, server, outbox>>

\* A handler that skips the already-paid check of lines 206-210.
WebhookWithoutPaidCheck(s, razorpayOrderId, in) ==
    LET hook == Hook(razorpayOrderId, in)
        id == FindByRazorpayOrderId(razorpayOrderId)
    IN
    /\ reqs[s].op = "idle"
    /\ server.state = "up"
    /\ WebhookSecret # ""
    /\ Reconciles(hook)
    /\ id # 0
    /\ WebhookEnd(s, WebhookRequest(id, hook), in)

\* The whole handler for a verified payment-success event on an unpaid order,
\* served without interleaving.
Webhook(s, razorpayOrderId, in) ==
    LET hook == Hook(razorpayOrderId, in)
        id == FindByRazorpayOrderId(razorpayOrderId)
    IN
    /\ reqs[s].op = "idle"
    /\ server.state = "up"
    /\ WebhookSecret # ""
    /\ Reconciles(hook)
    /\ id # 0
    /\ ~orders[id].isPaid
    /\ WebhookEnd(s, WebhookRequest(id, hook), in)

\* Lines 195-210: startTransaction and Order.findOne of a verified
\* payment-success event; an unpaid order is loaded.
WebhookBegin(s, razorpayOrderId, in) ==
    LET hook == Hook(razorpayOrderId, in)
        id == FindByRazorpayOrderId(razorpayOrderId)
    IN
    /\ reqs[s].op = "idle"
    /\ server.state = "up"
    /\ WebhookSecret # ""
    /\ Reconciles(hook)
    /\ id # 0
    /\ ~orders[id].isPaid
    /\ reqs' = [reqs EXCEPT ![s] = WebhookRequest(id, hook)]
    /\ UNCHANGED <<products, carts, orders, gateway, paidByHook, restored, server, outbox>>

\* Lines 212-236: the save and the commit of a delivery that WebhookBegin left
\* in flight.
WebhookFinish(s, in) ==
    /\ reqs[s].op = "webhook" /\ reqs[s].pc = "txn"
    /\ in.paymentId = reqs[s].hook.paymentId
    /\ WebhookEnd(s, reqs[s], in)

\* Deliveries: order.paid for either payment with and without a database
\* fault; the other events with and without an order entity in the payload;
\* a body that does not parse; and bodies signed by a sender without the secret.
WebhookInputs ==
    [event : {"order.paid"}, paymentId : PaymentIds, hasOrder : {TRUE},
     json : {TRUE}, key : {GatewaySecret}, fault : {"none", "save"}]
    \cup [event : {"payment.captured", "payment.failed", "refund.created"},
          paymentId : {1}, hasOrder : BOOLEAN, json : {TRUE},
          key : {GatewaySecret}, fault : {"none"}]
    \cup [event : {"order.paid"}, paymentId : {1}, hasOrder : {TRUE},
          json : {FALSE}, key : {GatewaySecret}, fault : {"none"}]
    \cup [event : {"order.paid"}, paymentId : {1}, hasOrder : {TRUE},
          json : BOOLEAN, key : {"guess"}, fault : {"none"}]
    \cup [event : {"payment.failed"}, paymentId : {1}, hasOrder : {TRUE},
          json : {TRUE}, key : {"guess"}, fault : {"none"}]

\* ------------------------------------------------------------ lifecycle
\* The shop with carts already filled by addItemToCart: user 1 holds InitStock
\* units of product 1 and one unit of the last product, every other user one
\* unit of product 1; product 1 may since have been deactivated or deleted.
CartLine(p, q) ==
    [product |-> p, quantity |-> q, price |-> PriceOf(p), name |-> NameOf(p)]
FilledCart(u) ==
    IF u = 1
    THEN [exists |-> TRUE, items |-> <<CartLine(1, InitStock), CartLine(NumProducts, 1)>>]
    ELSE [exists |-> TRUE, items |-> <<CartLine(1, 1)>>]
CatalogFlags ==
    {[isActive |-> TRUE, exists |-> TRUE], [isActive |-> FALSE, exists |-> TRUE],
     [isActive |-> FALSE, exists |-> FALSE]}

InitShop ==
    /\ \E f \in CatalogFlags :
          products = [p \in Products |->
              [price |-> PriceOf(p), name |-> NameOf(p), stockQuantity |-> InitStock,
               isActive |-> IF p = 1 THEN f.isActive ELSE TRUE,
               exists |-> IF p = 1 THEN f.exists ELSE TRUE]]
    /\ carts = [u \in Users |-> FilledCart(u)]
    /\ orders = <<>>
    /\ gateway = 0
    /\ reqs = [s \in Slots |-> Idle]
    /\ paidByHook = <<>>
    /\ restored = <<>>
    /\ server = Running
    /\ outbox = NoHook

\* Requests served one at a time.
Next ==
    \E s \in {1} :
        \/ CreateOrderBadRequest(s)
        \/ \E u \in Users : CreateOrderEmptyCart(s, u)
        \/ \E u \in Users, in \in CreateOrderInputs : CreateOrder(s, u, in)
        \/ \E id \in 0..MaxOrders : UpdateOrderStatusNotFound(s, id)
        \/ \E id \in 1..MaxOrders, in \in UpdateInputs : UpdateOrderStatus(s, id, in)
        \/ \E g \in 1..MaxGateway, in \in WebhookInputs : WebhookRejected(s, g, in)
        \/ \E g \in 1..MaxGateway, in \in WebhookInputs : WebhookThrows(s, g, in)
        \/ \E g \in 1..MaxGateway, in \in WebhookInputs : WebhookIgnored(s, g, in)
        \/ \E g \in 1..MaxGateway, in \in WebhookInputs : WebhookNoOp(s, g, in)
        \/ \E g \in 1..MaxGateway, in \in WebhookInputs : Webhook(s, g, in)
        \/ Close(s)

Spec == InitShop /\ [][Next]_vars

\* ------------------------------------------------------------ cart races
\* Cart building and checkout racing on NumSlots request slots; orders are
\* cash-on-delivery with a complete body and no database fault.
CartInputs ==
    [paymentMethod : {"COD"}, shippingAddress : {"full"}, taxPrice : {0},
     shippingPrice : {0}, gatewayOk : {TRUE}, fault : {"none"}]

NextCart ==
    \E s \in Slots :
        \/ \E u \in Users, q \in Quantities : AddItemBegin(s, u, 1, q)
        \/ AddItemCreate(s)
        \/ AddItemSave(s)
        \/ \E u \in Users : CreateOrderEmptyCart(s, u)
        \/ \E u \in Users : CreateOrderBegin(s, u)
        \/ \E in \in CartInputs : CreateOrderFinish(s, in)
        \/ Close(s)

SpecCart == Init /\ [][NextCart]_vars

\* ---------------------------------------------------------- catalog edits
\* Checkout of carts filled before the catalog was edited: each product has
\* its price and its name of then, or new ones.
InitPrice ==
    /\ \E price \in [Products -> BOOLEAN], name \in [Products -> BOOLEAN] :
          products = [p \in Products |->
              [price |-> IF price[p] THEN NewPriceOf(p) ELSE PriceOf(p),
               name |-> IF name[p] THEN NewNameOf(p) ELSE NameOf(p),
               stockQuantity |-> InitStock, isActive |-> TRUE, exists |-> TRUE]]
    /\ carts = [u \in Users |-> FilledCart(u)]
    /\ orders = <<>>
    /\ gateway = 0
    /\ reqs = [s \in Slots |-> Idle]
    /\ paidByHook = <<>>
    /\ restored = <<>>
    /\ server = Running
    /\ outbox = NoHook

NextPrice ==
    \E s \in {1} :
        \/ \E u \in Users, in \in CreateOrderInputs : CreateOrder(s, u, in)
        \/ Close(s)

SpecPrice == InitPrice /\ [][NextPrice]_vars

\* ------------------------------------------------------- administration
\* One checkout per shop, then status updates with every kind of body and
\* payment notifications, served one at a time.
AdminOrderInputs ==
    [paymentMethod : {"COD", "Razorpay"}, shippingAddress : {"full"}, taxPrice : {0},
     shippingPrice : {0}, gatewayOk : {TRUE}, fault : {"none"}]

AdminHooks ==
    [event : {"order.paid"}, paymentId : {1}, hasOrder : {TRUE},
     json : {TRUE}, key : {GatewaySecret}, fault : {"none"}]

NextAdmin ==
    \E s \in {1} :
        \/ \E in \in AdminOrderInputs : CreateOrder(s, 1, in)
        \/ \E in \in AdminInputs : UpdateOrderStatusLogged(s, 1, in)
        \/ \E in \in AdminHooks : Webhook(s, 1, in)
        \/ Close(s)

\* A shop with filled carts and every product on sale.
InitAdmin == InitShop /\ \A p \in Products : products[p].isActive

SpecAdmin == InitAdmin /\ [][NextAdmin]_vars

\* ------------------------------------------------- reconciliation races
\* One gateway checkout, then status updates and payment notifications of
\* that order racing on NumSlots request slots, each split at its read.
RaceOrderInputs ==
    [paymentMethod : {"Razorpay"}, shippingAddress : {"full"}, taxPrice : {0},
     shippingPrice : {0}, gatewayOk : {TRUE}, fault : {"none"}]

RaceInputs ==
    [orderStatus : {"", "Shipped", "Cancelled"}, isPaid : {"undefined", "false"},
     paymentResult : {NoPatch}, now : NowVals, fault : {"none"}]

NextRace ==
    \E s \in Slots :
        \/ \E in \in RaceOrderInputs : CreateOrder(s, 1, in)
        \/ UpdateOrderStatusBegin(s, 1)
        \/ \E in \in RaceInputs : UpdateOrderStatusFinish(s, in)
        \/ \E in \in AdminHooks : WebhookBegin(s, 1, in)
        \/ \E in \in AdminHooks : WebhookFinish(s, in)
        \/ \E in \in AdminHooks : WebhookNoOp(s, 1, in)
        \/ Close(s)

SpecRace == InitAdmin /\ [][NextRace]_vars

\* ------------------------------------------------------------ redelivery
\* The gateway's side of a payment: it emits one notification for a gateway
\* order and delivers it again and again until a delivery is answered 200.
\* An order.paid payload holds the payment and the order entity; a
\* payment.captured payload holds the payment entity only, which names the
\* gateway order in its order_id.
LiveEvents ==
    {[event |-> "order.paid", hasOrder |-> TRUE],
     [event |-> "payment.captured", hasOrder |-> FALSE]}

\* The customer pays gateway order g; the gateway files its notification.
Notify(g, ev) ==
    /\ outbox = NoHook
    /\ \E id \in 1..Len(orders) :
          orders[id].razorpayOrderId = g /\ paidByHook[id] = 0
    /\ outbox' = [razorpayOrderId |-> g, event |-> ev.event, paymentId |-> 1,
                  hasOrder |-> ev.hasOrder, json |-> TRUE, key |-> GatewaySecret]
    /\ UNCHANGED <<products, carts, orders, gateway, reqs, paidByHook, restored, server>>

\* The filed notification as one delivery, with the outcome of the database.
Delivery(hook, fault) ==
    [event |-> hook.event, paymentId |-> hook.paymentId, hasOrder |-> hook.hasOrder,
     json |-> hook.json, key |-> hook.key, fault |-> fault]

\* The gateway delivers the filed notification and the handler serves it.
Deliver(s, fault) ==
    /\ outbox # NoHook
    /\ \/ Webhook(s, outbox.razorpayOrderId, Delivery(outbox, fault))
       \/ WebhookNoOp(s, outbox.razorpayOrderId, Delivery(outbox, fault))
       \/ WebhookThrows(s, outbox.razorpayOrderId, Delivery(outbox, fault))

\* The gateway reads the answer: 200 settles the notification, anything else
\* (an error, or no answer at all) leaves it filed for the next delivery.
GatewayReads(s) ==
    /\ reqs[s].pc = "replied" /\ reqs[s].op = "webhook"
    /\ reqs' = [reqs EXCEPT ![s] = Idle]
    /\ outbox' = IF reqs[s].code = 200 THEN NoHook ELSE outbox
    /\ UNCHANGED <<products, carts, orders, gateway, paidByHook, restored, server>>

\* The administrator reads the answer to a status update, the customer the
\* answer to a checkout.
ClientReads(s) == reqs[s].op # "webhook" /\ Close(s)

LiveInputs ==
    [orderStatus : {"", "Shipped", "Cancelled"}, isPaid : IsPaidInputs,
     paymentResult : {NoPatch}, now : NowVals, fault : {"none"}]

NextLive ==
    \E s \in {1} :
        \/ \E in \in RaceOrderInputs : CreateOrder(s, 1, in)
        \/ \E in \in LiveInputs : UpdateOrderStatus(s, 1, in)
        \/ \E g \in 1..MaxGateway, ev \in LiveEvents : Notify(g, ev)
        \/ \E fault \in {"none", "save"} : Deliver(s, fault)
        \/ GatewayReads(s)
        \/ ClientReads(s)

\* Every answer is read, and a delivery whose database write succeeds is
\* served again and again as long as the notification is filed.
Fairness ==
    /\ WF_vars(\E s \in {1} : GatewayReads(s))
    /\ WF_vars(\E s \in {1} : ClientReads(s))
    /\ SF_vars(\E s \in {1} : Deliver(s, "none"))

SpecLive == InitAdmin /\ [][NextLive]_vars /\ Fairness

\* --------------------------------------------------------------- startup
\* razorpayConfig.js lines 11-14: new Razorpay({ key_id, key_secret }), run when
\* the controllers are loaded.  The constructor throws without a key_id; without
\* a key_secret it throws in the releases of the SDK that require one (strict)
\* and returns an instance in those that do not.
NewRazorpayThrows(env, strict) == ~env.keyId \/ (strict /\ ~env.keySecret)

\* razorpayConfig.js lines 5-14 and server.js app.listen: the missing keys are
\* logged, the exit is commented out, and the process listens unless loading
\* the configuration threw.
Boot(strict) ==
    /\ server.state = "off"
    /\ server' = [server EXCEPT
          !.state = IF NewRazorpayThrows(server, strict) THEN "crashed" ELSE "up"]
    /\ UNCHANGED <<products, carts, orders, gateway, reqs, paidByHook, restored, outbox>>

\* A process not yet started, under every environment.
InitBoot ==
    /\ products = [p \in Products |->
          [price |-> PriceOf(p), name |-> NameOf(p), stockQuantity |-> InitStock,
           isActive |-> TRUE, exists |-> TRUE]]
    /\ carts = [u \in Users |-> FilledCart(u)]
    /\ orders = <<>>
    /\ gateway = 0
    /\ reqs = [s \in Slots |-> Idle]
    /\ paidByHook = <<>>
    /\ restored = <<>>
    /\ server \in [keyId : BOOLEAN, keySecret : BOOLEAN, webhookSecret : BOOLEAN,
                    state : {"off"}]
    /\ outbox = NoHook

\* Startup, then checkout and webhook deliveries served one at a time; the
\* gateway opens an order only for a process that holds the key secret.
NextBoot ==
    \/ \E strict \in BOOLEAN : Boot(strict)
    \/ \E s \in {1} :
        \/ \E g \in 1..MaxGateway, in \in WebhookInputs : WebhookMisconfigured(s, g, in)
        \/ \E g \in 1..MaxGateway, in \in WebhookInputs : WebhookRejected(s, g, in)
        \/ \E g \in 1..MaxGateway, in \in WebhookInputs : WebhookThrows(s, g, in)
        \/ \E g \in 1..MaxGateway, in \in WebhookInputs : WebhookIgnored(s, g, in)
        \/ \E g \in 1..MaxGateway, in \in WebhookInputs : WebhookNoOp(s, g, in)
        \/ \E g \in 1..MaxGateway, in \in WebhookInputs : Webhook(s, g, in)
        \/ \E u \in Users,
              in \in {i \in CreateOrderInputs : i.gatewayOk => server.keySecret} :
                 CreateOrder(s, u, in)
        \/ Close(s)

SpecBoot == InitBoot /\ [][NextBoot]_vars

\* ------------------------------------------------------------ properties
\* Slot s sends the response of handler op in this step.
Answers(s, op) ==
    reqs[s].pc # "replied" /\ reqs'[s].pc = "replied" /\ reqs'[s].op = op
OrderIds == 1..Len(orders)
LineProducts(items) == {items[i].product : i \in 1..Len(items)}

\* C1: however cart building and concurrent createOrder requests interleave,
\* committed orders never take more than the stock there was: no product's
\* stockQuantity is ever negative.
C1_StockNeverNegative ==
    \A p \in Products : products[p].stockQuantity >= 0

\* C2: a createOrder that does not answer 201 leaves the orders, every
\* product and every cart as they were before the request.
C2_FailedCreateOrderLeavesNoTrace ==
    [][\A s \in Slots :
          (Answers(s, "createOrder") /\ reqs'[s].code # 201)
              => (orders' = orders /\ products' = products /\ carts' = carts)]_vars

\* A createOrder just failed at the stock update or the cart deletion, after
\* the order was written inside the transaction.
C2_Witness ==
    \E s \in Slots :
        /\ reqs[s].op = "createOrder" /\ reqs[s].pc = "replied"
        /\ reqs[s].code = 500 /\ reqs[s].body = "server error"
        /\ reqs[s].user \in Users
        /\ carts[reqs[s].user] = FilledCart(reqs[s].user)
        /\ \A p \in Products : products[p].stockQuantity = InitStock
        /\ orders = <<>>

\* C3: a verified payment-success webhook for an order that a webhook already
\* marked paid is answered 200 like the first and changes nothing of the
\* order (paidAt, paymentResult, orderStatus), and the delivery that marks the
\* order paid is the only one that writes paymentResult.
C3_DuplicateWebhookChangesNothing ==
    [][\A s \in Slots :
          (Answers(s, "webhook") /\ reqs'[s].order # 0) =>
              LET id == reqs'[s].order IN
              IF orders[id].isPaid
              THEN reqs'[s].code = 200 /\ orders' = orders /\ paidByHook' = paidByHook
              ELSE orders'[id].isPaid =>
                     /\ reqs'[s].code = 200
                     /\ orders'[id].paymentResult.id \in PaymentIds]_vars

\* The second delivery was just acknowledged: the order is as the first
\* delivery left it and was marked paid by a webhook once.
C3_Witness ==
    \E s \in Slots :
        /\ reqs[s].op = "webhook" /\ reqs[s].pc = "replied"
        /\ reqs[s].code = 200 /\ reqs[s].body = "already paid"
        /\ reqs[s].order \in OrderIds
        /\ orders[reqs[s].order] = reqs[s].doc
        /\ orders[reqs[s].order].paidAt = EventTime(orders[reqs[s].order].paymentResult.id)
        /\ paidByHook[reqs[s].order] = 1

\* C4: over an order's lifetime the webhook path marks it paid at most once.
C4_PaidByWebhookAtMostOnce ==
    \A id \in OrderIds : paidByHook[id] <= 1

\* C5: every paid order has paidAt set and a status that is not an
\* unpaid-initial one.
C5_PaidImpliesPaidAtAndStatus ==
    \A id \in OrderIds :
        orders[id].isPaid =>
            orders[id].paidAt # 0 /\ orders[id].orderStatus \notin UnpaidInitial

\* An order that started in 'Pending Payment' and that the admin marked paid.
C5_Witness ==
    \E id \in OrderIds :
        /\ orders[id].isPaid
        /\ orders[id].paymentMethod = "Cash"
        /\ orders[id].orderStatus = "Processing"
        /\ orders[id].paidAt \in NowVals
        /\ paidByHook[id] = 0

\* C6: updateOrderStatus asking for 'Cancelled' on an order that is already
\* 'Cancelled' changes no product's stock.
C6_CancelAgainKeepsStock ==
    [][\A s \in Slots :
          (/\ Answers(s, "updateOrderStatus")
           /\ reqs'[s].order # 0
           /\ reqs'[s].asked = "Cancelled")
              => (orders[reqs'[s].order].orderStatus = "Cancelled"
                    => products' = products /\ restored' = restored)]_vars

\* A second cancellation was just served with 200 and the order's inventory
\* has been restored once.
C6_Witness ==
    \E s \in Slots :
        /\ reqs[s].op = "updateOrderStatus" /\ reqs[s].pc = "replied"
        /\ reqs[s].code = 200 /\ reqs[s].asked = "Cancelled"
        /\ reqs[s].order \in OrderIds
        /\ reqs[s].doc.orderStatus = "Cancelled"
        /\ orders[reqs[s].order].orderStatus = "Cancelled"
        /\ restored[reqs[s].order] = 1

\* C7: an updateOrderStatus that moves an order from 'Pending Payment' or
\* 'Processing' to 'Cancelled' raises the stock of each line's product by that
\* line's quantity, changes no other product and leaves the order 'Cancelled',
\* in one step; if it fails, neither the stock nor the order changes.
C7_CancelRestoresEachLine ==
    [][\A s \in Slots :
          (/\ Answers(s, "updateOrderStatus")
           /\ reqs'[s].order # 0
           /\ reqs'[s].asked = "Cancelled")
              => LET id == reqs'[s].order
                     items == orders[id].items
                 IN orders[id].orderStatus \in {"Pending Payment", "Processing"} =>
                      IF reqs'[s].code = 200
                      THEN /\ \A i \in 1..Len(items) :
                                products'[items[i].product] =
                                    [products[items[i].product] EXCEPT
                                        !.stockQuantity = @ + items[i].quantity]
                           /\ \A p \in Products \ LineProducts(items) :
                                products'[p] = products[p]
                           /\ orders'[id].orderStatus = "Cancelled"
                           /\ carts' = carts
                      ELSE products' = products /\ orders' = orders]_vars

\* The two-line order of user 1 was just cancelled from 'Processing' and both
\* products are back at their initial stock.
C7_Witness ==
    \E s \in Slots :
        /\ reqs[s].op = "updateOrderStatus" /\ reqs[s].pc = "replied"
        /\ reqs[s].code = 200 /\ reqs[s].asked = "Cancelled"
        /\ reqs[s].order \in OrderIds
        /\ reqs[s].doc.orderStatus = "Processing"
        /\ Len(reqs[s].doc.items) = 2
        /\ orders[reqs[s].order].orderStatus = "Cancelled"
        /\ \A p \in LineProducts(reqs[s].doc.items) : products[p].stockQuantity = InitStock

\* C8: over an order's lifetime its inventory is restored at most once.
C8_RestoredAtMostOnce ==
    \A id \in OrderIds : restored[id] <= 1

\* C9: the stored totalPrice of every order is the sum of its stored
\* itemsPrice, taxPrice and shippingPrice.
C9_TotalIsSumOfStoredParts ==
    \A id \in OrderIds :
        orders[id].totalPrice =
            orders[id].itemsPrice + orders[id].taxPrice + orders[id].shippingPrice

\* C10: a createOrder that answers 201 adds exactly one order, unpaid, with one
\* line per cart line, lowers each ordered product's stock by the ordered
\* quantity and deletes the user's cart, and a createOrder step changes the
\* orders, the stock and the carts together or not at all.
C10_CommitHasAllEffects ==
    [][\A s \in Slots :
          Answers(s, "createOrder") =>
              /\ reqs'[s].code = 201 =>
                    LET u == reqs'[s].user
                        items == carts[u].items
                        new == orders'[Len(orders')]
                    IN /\ orders' = Append(orders, new)
                       /\ new.user = u /\ ~new.isPaid
                       /\ Len(new.items) = Len(items)
                       /\ \A i \in 1..Len(items) :
                            /\ new.items[i].product = items[i].product
                            /\ new.items[i].quantity = items[i].quantity
                            /\ products'[items[i].product] =
                                  [products[items[i].product] EXCEPT
                                      !.stockQuantity = @ - items[i].quantity]
                       /\ \A p \in Products \ LineProducts(items) :
                            products'[p] = products[p]
                       /\ carts' = [carts EXCEPT ![u] = NoCart]
              /\ (orders' # orders) <=> (products' # products)
              /\ (orders' # orders) <=> (carts' # carts)]_vars

\* User 1's order was just placed: one order with both cart lines, product 1
\* sold out, the cart gone.
C10_Witness ==
    \E s \in Slots :
        /\ reqs[s].op = "createOrder" /\ reqs[s].pc = "replied" /\ reqs[s].code = 201
        /\ reqs[s].user = 1
        /\ Len(orders) = 1 /\ Len(orders[1].items) = 2 /\ ~orders[1].isPaid
        /\ products[1].stockQuantity = 0
        /\ ~carts[1].exists

\* C11: a createOrder whose gateway call fails answers 500 and leaves the
\* orders, every product and every cart as they were, and no gateway-routed
\* order exists without a gateway order id.
C11_GatewayFailureAborts ==
    [][/\ \A s \in Slots :
            (Answers(s, "createOrder") /\ reqs'[s].body = "gateway error")
                => /\ reqs'[s].code = 500
                   /\ orders' = orders /\ products' = products /\ carts' = carts
       /\ \A id \in 1..Len(orders') :
            IsGatewayRouted(orders'[id].paymentMethod)
                => orders'[id].razorpayOrderId # 0]_vars

\* A gateway-routed createOrder just failed at the gateway and the shop is
\* as it was: no order, full stock, the user's cart in place.
C11_Witness ==
    \E s \in Slots :
        /\ reqs[s].op = "createOrder" /\ reqs[s].pc = "replied"
        /\ reqs[s].code = 500 /\ reqs[s].body = "gateway error"
        /\ reqs[s].user \in Users
        /\ carts[reqs[s].user] = FilledCart(reqs[s].user)
        /\ \A p \in Products : products[p].stockQuantity = InitStock
        /\ orders = <<>>
        /\ gateway = 0

\* C12: every order in 'Pending Payment' has a gateway order id and is unpaid.
C12_PendingPaymentHasGatewayOrder ==
    \A id \in OrderIds :
        orders[id].orderStatus = "Pending Payment"
            => orders[id].razorpayOrderId # 0 /\ ~orders[id].isPaid

\* C13: a createOrder that commits with a payment method that is not routed
\* to the gateway creates the order in 'Processing', opens no gateway order,
\* stores no gateway order id and returns no gateway payment parameters.
C13_OfflineOrderStartsProcessing ==
    [][\A s \in Slots :
          (Answers(s, "createOrder") /\ reqs'[s].code = 201) =>
              LET new == orders'[Len(orders')] IN
              ~IsGatewayRouted(new.paymentMethod) =>
                  /\ new.orderStatus = "Processing"
                  /\ gateway' = gateway
                  /\ new.razorpayOrderId = 0
                  /\ reqs'[s].body = "order placed"]_vars

\* C14: a payment-success webhook applied to an unpaid order marks it paid at
\* the event's timestamp with the event's payment in paymentResult, and an
\* order that is already 'Shipped' or 'Delivered' keeps its status while any
\* other becomes 'Processing'.
C14_WebhookKeepsAdvancedStatus ==
    [][\A s \in Slots :
          (Answers(s, "webhook") /\ reqs'[s].order # 0) =>
              LET id == reqs'[s].order IN
              (~orders[id].isPaid /\ orders'[id].isPaid) =>
                  /\ orders'[id].paidAt = EventTime(orders'[id].paymentResult.id)
                  /\ orders'[id].paymentResult.id \in PaymentIds
                  /\ orders'[id].orderStatus =
                        IF orders[id].orderStatus \in {"Shipped", "Delivered"}
                        THEN orders[id].orderStatus
                        ELSE "Processing"]_vars

C16_BadSignatureRejected ==
    [][\A s \in Slots :
          (/\ Answers(s, "webhook")
           /\ SignatureHeader(reqs'[s].hook)
                 # Hmac(WebhookSecret, RawBody(reqs'[s].hook)))
              => /\ reqs'[s].code = 400
                 /\ reqs'[s].body = "signature mismatch"
                 /\ UNCHANGED <<products, carts, orders, gateway>>]_vars

\* A forged order.paid event naming an unpaid gateway order has been rejected.
C16_Witness ==
    \E s \in Slots :
        /\ reqs[s].pc = "replied" /\ reqs[s].op = "webhook"
        /\ reqs[s].code = 400
        /\ reqs[s].hook.key # WebhookSecret
        /\ reqs[s].hook.event = "order.paid" /\ reqs[s].hook.json
        /\ \E id \in 1..Len(orders) :
              /\ orders[id].razorpayOrderId = reqs[s].hook.razorpayOrderId
              /\ ~orders[id].isPaid

\* C17: a delivery whose signature verifies is answered 200 whatever its event
\* type and payload, or 500 if it was a payment-success event for an unpaid
\* order whose update failed; events other than payment-success ones change
\* no state.
C17_VerifiedWebhookAcknowledged ==
    [][\A s \in Slots :
          (/\ Answers(s, "webhook")
           /\ SignatureHeader(reqs'[s].hook)
                 = Hmac(WebhookSecret, RawBody(reqs'[s].hook)))
              => /\ reqs'[s].code \in {200, 500}
                 /\ reqs'[s].code = 500
                       => /\ reqs'[s].hook.event \in SuccessEvents
                          /\ reqs'[s].order # 0
                          /\ ~orders[reqs'[s].order].isPaid
                 /\ reqs'[s].hook.event \notin SuccessEvents
                       => /\ reqs'[s].code = 200
                          /\ UNCHANGED <<products, carts, orders, gateway>>]_vars

\* C18: a verified payment-success delivery for an unpaid order either marks
\* it paid and is answered 200, or fails and is answered 500 with every
\* collection as before the request; the order is then still unpaid and still
\* found by its gateway order id, so that a redelivery is reconciled again.
C18_FailedSaveRollsBack ==
    [][\A s \in Slots :
          (/\ Answers(s, "webhook")
           /\ Reconciles(reqs'[s].hook)
           /\ reqs'[s].order # 0
           /\ ~orders[reqs'[s].order].isPaid)
              => LET id == reqs'[s].order
                     hook == reqs'[s].hook
                 IN
                 \/ /\ reqs'[s].code = 500
                    /\ orders' = orders /\ products' = products /\ carts' = carts
                    /\ paidByHook' = paidByHook
                    /\ ~orders'[id].isPaid
                    /\ FindByRazorpayOrderId(hook.razorpayOrderId) = id
                 \/ /\ reqs'[s].code = 200
                    /\ orders'[id].isPaid
                    /\ orders'[id].paymentResult.id = hook.paymentId
                    /\ paidByHook'[id] >= 1]_vars

\* A payment-success delivery for an unpaid gateway order has failed with 500.
C18_Witness ==
    \E s \in Slots :
        /\ reqs[s].pc = "replied" /\ reqs[s].op = "webhook"
        /\ reqs[s].code = 500 /\ reqs[s].body = "server error"
        /\ reqs[s].order # 0
        /\ ~orders[reqs[s].order].isPaid
        /\ orders[reqs[s].order] = reqs[s].doc
        /\ paidByHook[reqs[s].order] = 0

\* The fields of an order that are fixed at its creation.
ImmutableFields(order) ==
    <<order.user, order.items, order.shippingAddress, order.paymentMethod,
      order.itemsPrice, order.taxPrice, order.shippingPrice, order.totalPrice,
      order.razorpayOrderId>>

\* C20: no step removes an order, and no step changes the user, the lines,
\* the shipping address, the payment method, the four amounts or the gateway
\* order id of an order that exists.
C20_CreationFieldsAreFrozen ==
    [][/\ Len(orders') >= Len(orders)
       /\ \A id \in 1..Len(orders) :
             ImmutableFields(orders'[id]) = ImmutableFields(orders[id])]_vars

\* An order has been paid through the webhook and then delivered by an
\* administrator.
C20_Witness ==
    \E id \in 1..Len(orders) :
        /\ paidByHook[id] >= 1
        /\ orders[id].isPaid
        /\ orders[id].orderStatus = "Delivered"
        /\ orders[id].deliveredAt # 0
        /\ orders[id].razorpayOrderId # 0

\* C19: a process that listens holds a webhook secret, and no delivery is
\* answered with the error of a missing secret.
C19_NoServingWithoutSecret ==
    /\ server.state = "up" => WebhookSecret # ""
    /\ \A s \in Slots :
          ~(reqs[s].pc = "replied" /\ reqs[s].body = "secret misconfiguration")

\* C23: an updateOrderStatus body without orderStatus 'Paid' is answered 200
\* and its paymentResult patch is merged field by field into the order's
\* paymentResult.  If the patch's status is a success value in any spelling
\* and the order was unpaid, the order is then paid with paidAt set (the
\* patch's update_time, or now) and is in no unpaid-initial status; if the
\* status is no success value and the body has no isPaid, isPaid is as before.
C23_SuccessPatchMarksPaid ==
    [][\A s \in Slots :
          (/\ Answers(s, "updateOrderStatus")
           /\ reqs'[s].input # NoInput
           /\ reqs'[s].input.paymentResult.status # "none"
           /\ reqs'[s].input.orderStatus # "Paid")
              => LET in == reqs'[s].input
                     patch == in.paymentResult
                     before == reqs'[s].doc
                     after == orders'[reqs'[s].order]
                     success == patch.status \in {"Captured", "PAID"}
                 IN
                 /\ reqs'[s].code = 200
                 /\ after.paymentResult.status = patch.status
                 /\ after.paymentResult.id =
                       (IF patch.id # 0 THEN patch.id ELSE before.paymentResult.id)
                 /\ after.paymentResult.update_time =
                       (IF patch.update_time # 0 THEN patch.update_time
                        ELSE before.paymentResult.update_time)
                 /\ (success /\ ~before.isPaid)
                       => /\ after.isPaid
                          /\ after.paidAt # 0
                          /\ in.isPaid = "undefined"
                                => after.paidAt = (IF patch.update_time # 0
                                                   THEN patch.update_time ELSE in.now)
                          /\ after.orderStatus \notin UnpaidInitial
                 /\ (~success /\ in.isPaid = "undefined")
                       => /\ after.isPaid = before.isPaid
                          /\ after.paidAt = before.paidAt]_vars

\* An unpaid order awaiting payment has been patched with status 'PAID' and
\* update_time 7 and is now paid and in 'Processing'.
C23_Witness ==
    \E s \in Slots :
        /\ reqs[s].pc = "replied" /\ reqs[s].op = "updateOrderStatus"
        /\ reqs[s].code = 200
        /\ reqs[s].input # NoInput
        /\ reqs[s].input.paymentResult.status = "PAID"
        /\ reqs[s].input.isPaid = "undefined" /\ reqs[s].input.orderStatus = ""
        /\ ~reqs[s].doc.isPaid /\ reqs[s].doc.orderStatus = "Pending Payment"
        /\ orders[reqs[s].order].isPaid
        /\ orders[reqs[s].order].paidAt = 7
        /\ orders[reqs[s].order].orderStatus = "Processing"

\* C24: an order that is not paid has no paidAt.
C24_UnpaidHasNoPaidAt ==
    \A id \in OrderIds : ~orders[id].isPaid => orders[id].paidAt = 0

\* C25: an updateOrderStatus to 'Delivered' that is answered 200 leaves the
\* order with deliveredAt set, and no step changes or clears a deliveredAt
\* that is set.
C25_DeliveredAtIsSetOnce ==
    [][/\ \A s \in Slots :
             (/\ Answers(s, "updateOrderStatus")
              /\ reqs'[s].code = 200
              /\ reqs'[s].asked = "Delivered")
                 => orders'[reqs'[s].order].deliveredAt # 0
       /\ \A id \in OrderIds :
             orders[id].deliveredAt # 0
                => orders'[id].deliveredAt = orders[id].deliveredAt]_vars

\* A delivered order has since been given another status and still carries
\* its deliveredAt.
C25_Witness ==
    \E id \in OrderIds :
        /\ orders[id].deliveredAt # 0
        /\ orders[id].orderStatus \notin {"Delivered"}

\* Units of product p held by the orders that are not cancelled.
HeldUnits(p) ==
    SumSeq([id \in 1..Len(orders) |->
               IF orders[id].orderStatus = "Cancelled" THEN 0
               ELSE QtyOf(orders[id].items, p)])

\* C26: for every product, the stock plus the units held by orders that are
\* not cancelled never exceeds the initial stock.
C26_StockPlusHeldWithinInitial ==
    \A p \in Products : products[p].stockQuantity + HeldUnits(p) <= InitStock

C22_OrderLinesCarryCatalogPrice ==
    [][\A s \in Slots :
          (Answers(s, "createOrder") /\ reqs'[s].code = 201)
              => LET order == orders'[Len(orders')]
                     cart == carts[reqs'[s].user]
                 IN
                 /\ Len(orders') = Len(orders) + 1
                 /\ Len(order.items) = Len(cart.items)
                 /\ \A i \in 1..Len(cart.items) :
                       /\ order.items[i].product = cart.items[i].product
                       /\ order.items[i].quantity = cart.items[i].quantity
                       /\ order.items[i].price = products[cart.items[i].product].price
                       /\ order.items[i].name = products[cart.items[i].product].name
                 /\ order.itemsPrice =
                       ToFixed2(SumSeq([i \in 1..Len(cart.items) |->
                           products[cart.items[i].product].price
                              * cart.items[i].quantity]))]_vars

\* An order holds a line at the new price and under the new name of a product
\* whose cart line had the old ones.
C22_Witness ==
    \E id \in OrderIds : \E i \in 1..Len(orders[id].items) :
        LET line == orders[id].items[i] IN
        /\ line.price = NewPriceOf(line.product)
        /\ line.name = NewNameOf(line.product)
        /\ orders[id].itemsPrice >= ToFixed2(NewPriceOf(line.product) * line.quantity)

\* C27: no cart holds two lines for the same product.
C27_OneLinePerProduct ==
    \A u \in Users : \A i, j \in 1..Len(carts[u].items) :
        carts[u].items[i].product = carts[u].items[j].product => i = j

\* C28: a createOrder commits only while the cart it loaded is still the
\* user's cart, and its commit removes that cart; a createOrder whose cart
\* has been converted or changed since it was loaded, and every other one
\* that does not answer 201, leaves orders, products and carts as they were.
\* Hence of two requests over the same cart at most one commits.
C28_CartConvertedOnce ==
    [][\A s \in Slots :
          Answers(s, "createOrder") /\ reqs[s].pc = "txn"
              => LET u == reqs[s].user IN
                 IF reqs'[s].code = 201
                 THEN /\ carts[u] = reqs[s].cart
                      /\ carts'[u] = NoCart
                      /\ Len(orders') = Len(orders) + 1
                      /\ orders'[Len(orders')].user = u
                 ELSE /\ orders' = orders
                      /\ products' = products
                      /\ carts' = carts]_vars

\* Two requests of one user have been answered, one with 201 and one with an
\* error; one order exists and the stock went down by its quantities once.
C28_Witness ==
    \E s, t \in Slots :
        /\ reqs[s].pc = "replied" /\ reqs[s].op = "createOrder" /\ reqs[s].code = 201
        /\ reqs[t].pc = "replied" /\ reqs[t].op = "createOrder" /\ reqs[t].code = 500
        /\ reqs[s].user = reqs[t].user
        /\ Len(orders) = 1
        /\ \A p \in Products :
              products[p].stockQuantity = InitStock - QtyOf(orders[1].items, p)

\* C21: a webhook or an updateOrderStatus that answers 200 and changes the
\* order or the stock does so on the order as it loaded it, so that what
\* another request committed in between is not overwritten, and it restores
\* stock only together with the change to 'Cancelled'; one that answers with
\* an error leaves orders, products and carts as they were.
C21_NoLostUpdate ==
    [][\A s \in Slots :
          (/\ reqs[s].pc = "txn"
           /\ reqs[s].op \in {"webhook", "updateOrderStatus"}
           /\ reqs'[s].pc = "replied")
              => LET id == reqs[s].order IN
                 IF reqs'[s].code = 200
                 THEN /\ (orders' # orders \/ products' # products)
                            => orders[id] = reqs[s].doc
                      /\ products' # products
                            => /\ orders[id].orderStatus # "Cancelled"
                               /\ orders'[id].orderStatus = "Cancelled"
                      /\ \A i \in OrderIds \ {id} : orders'[i] = orders[i]
                 ELSE /\ orders' = orders
                      /\ products' = products
                      /\ carts' = carts]_vars

\* A cancellation and a payment notification of one order overlapped: the
\* cancellation committed and restored the stock, the notification failed
\* with 500, and the order is cancelled and unpaid.
C21_Witness ==
    \E s, t \in Slots :
        /\ reqs[s].pc = "replied" /\ reqs[s].op = "updateOrderStatus"
        /\ reqs[s].code = 200 /\ reqs[s].asked = "Cancelled"
        /\ reqs[t].pc = "replied" /\ reqs[t].op = "webhook" /\ reqs[t].code = 500
        /\ reqs[s].order = reqs[t].order
        /\ reqs[s].doc = reqs[t].doc
        /\ orders[reqs[s].order].orderStatus = "Cancelled"
        /\ ~orders[reqs[s].order].isPaid
        /\ restored[reqs[s].order] = 1
        /\ \A p \in Products : products[p].stockQuantity = InitStock

\* C30: once the gateway has filed a payment-success notification for a
\* gateway order that a local order carries, that order is eventually paid.
C30_NotifiedOrderIsEventuallyPaid ==
    \A g \in 1..MaxGateway :
        (outbox # NoHook /\ outbox.razorpayOrderId = g)
            ~> (\E id \in OrderIds :
                    orders[id].razorpayOrderId = g /\ orders[id].isPaid)
====
